---- MODULE Spec2Model ----
(***************************************************************************)
(* The two client-side stores of event-ease: the session store             *)
(* (AuthContext: authReducer and the AuthProvider orchestration functions) *)
(* and the event collection store (EventsContext: eventsReducer and the    *)
(* EventsProvider orchestration functions).                                *)
(*                                                                         *)
(* An orchestration function runs synchronously up to its await, is then   *)
(* suspended until the collaborator settles the promise, and runs its      *)
(* continuation (try / catch / finally) synchronously.  Each of those      *)
(* synchronous pieces is one action; suspended calls are kept in issue     *)
(* order and may be resumed in any order.                                  *)
(***************************************************************************)
EXTENDS Integers, Sequences, FiniteSets, TLC

VARIABLES
  provider,     \* the provider this behaviour drives; the stores share no state
  authState,    \* AuthState held by useReducer(authReducer, initialState)
  authCalls,    \* suspended AuthProvider calls, in issue order
  checkAuthRan, \* the mount effect (checkAuth) has been started
  evState,      \* EventsState held by useReducer(eventsReducer, initialState)
  evCalls,      \* suspended EventsProvider calls, in issue order
  srv,          \* the events collaborator: id -> [ver (0 = no such event), mine]
  srvNextId,    \* the events collaborator: the id the next created event gets
  invoked,      \* store operations the UI has invoked so far
  known,        \* id -> the newest version an update or delete of the focused
                \* event has brought to the store (observation only)
  last          \* the synchronous piece that ran last (observation only)

vars == <<provider, authState, authCalls, checkAuthRan, evState, evCalls,
          srv, srvNextId, invoked, known, last>>

authVars == <<authState, authCalls, checkAuthRan>>
evVars == <<evState, evCalls, srv, srvNextId>>

----------------------------------------------------------------------------
(* Bounds *)

MaxCalls == 3      \* store operations the UI invokes in one behaviour
MaxInFlight == 2   \* suspended calls per store
NumIds == 2        \* event ids the collaborator can hand out
MaxVer == 2        \* versions an event can go through
MaxLen == 2        \* list length of the drawn reducer inputs

----------------------------------------------------------------------------
(* Values *)

NoUser == "absent"
Users == {"u1", "u2"}
NoError == "absent"
Msgs == {"m1", "m2"}
NoMsg == "none"

EventIds == 1..NumIds
NoEvent == [id |-> 0, ver |-> 0]
FilterSets == {"{}", "f1"}

----------------------------------------------------------------------------
(* Session store: transition function *)

authInitialState ==
  [user |-> NoUser, isAuthenticated |-> FALSE, isLoading |-> FALSE,
   error |-> NoError]

(* the case blocks of authReducer's switch *)
caseStart(state) ==
  [state EXCEPT !.isLoading = TRUE, !.error = NoError]

caseSuccess(state, payload) ==
  [state EXCEPT !.user = payload, !.isAuthenticated = TRUE,
                !.isLoading = FALSE, !.error = NoError]

(* faulty variant of the FAILURE case: the user is not cleared *)
caseFailure_keepsUser(state, payload) ==
  [state EXCEPT !.isAuthenticated = FALSE, !.isLoading = FALSE,
                !.error = payload]

caseFailure(state, payload) ==
  [state EXCEPT !.user = NoUser, !.isAuthenticated = FALSE,
                !.isLoading = FALSE, !.error = payload]

(* faulty variant of the LOGOUT case: isAuthenticated is not reset *)
caseLogout_keepsFlag(state) ==
  [state EXCEPT !.user = NoUser, !.error = NoError]

(* faulty variant of the LOGOUT case: loading is reset as well *)
caseLogout_resetsLoading(state) ==
  [state EXCEPT !.user = NoUser, !.isAuthenticated = FALSE,
                !.isLoading = FALSE, !.error = NoError]

caseLogout(state) ==
  [state EXCEPT !.user = NoUser, !.isAuthenticated = FALSE,
                !.error = NoError]

caseClearError(state) == [state EXCEPT !.error = NoError]

caseSetLoading(state, payload) == [state EXCEPT !.isLoading = payload]

authReducer(state, action) ==
  CASE action.type \in {"LOGIN_START", "REGISTER_START"} -> caseStart(state)
    [] action.type \in {"LOGIN_SUCCESS", "REGISTER_SUCCESS"} ->
         caseSuccess(state, action.payload)
    [] action.type \in {"LOGIN_FAILURE", "REGISTER_FAILURE"} ->
         caseFailure(state, action.payload)
    [] action.type = "LOGOUT" -> caseLogout(state)
    [] action.type = "CLEAR_ERROR" -> caseClearError(state)
    [] action.type = "SET_LOADING" -> caseSetLoading(state, action.payload)
    [] OTHER -> state

(* dispatch applies the actions of one synchronous piece in order *)
RECURSIVE authDispatch(_, _)
authDispatch(state, actions) ==
  IF actions = <<>> THEN state
  ELSE authDispatch(authReducer(state, Head(actions)), Tail(actions))

----------------------------------------------------------------------------
(* Event collection store: transition function *)

eventsInitialState ==
  [events |-> <<>>, myEvents |-> <<>>, currentEvent |-> NoEvent,
   isLoading |-> FALSE, error |-> NoError, filters |-> "{}"]

(* faulty variant of the spread: the new entry goes first *)
Spread_prepends(list, e) == <<e>> \o list

(* [...list, e] *)
Spread(list, e) == Append(list, e)

(* faulty variant of the map: an update of an id not in the list adds it *)
ReplaceById_inserts(list, e) ==
  IF \E i \in DOMAIN list : list[i].id = e.id
  THEN [i \in DOMAIN list |-> IF list[i].id = e.id THEN e ELSE list[i]]
  ELSE Append(list, e)

(* list.map(event => event.id === e.id ? e : event) *)
ReplaceById(list, e) ==
  [i \in DOMAIN list |-> IF list[i].id = e.id THEN e ELSE list[i]]

(* list.filter(event => event.id !== id) *)
RemoveById(list, id) ==
  LET keep(x) == x.id # id IN SelectSeq(list, keep)

(* the case blocks of eventsReducer's switch *)
caseFetchEventsStart(state) ==
  [state EXCEPT !.isLoading = TRUE, !.error = NoError]

caseFetchEventsSuccess(state, payload) ==
  [state EXCEPT !.events = payload, !.isLoading = FALSE, !.error = NoError]

(* faulty variant of the FETCH_EVENTS_FAILURE case: loading is left alone *)
caseFetchEventsFailure_keepsLoading(state, payload) ==
  [state EXCEPT !.error = payload]

caseFetchEventsFailure(state, payload) ==
  [state EXCEPT !.isLoading = FALSE, !.error = payload]

caseFetchMyEventsSuccess(state, payload) ==
  [state EXCEPT !.myEvents = payload]

caseSetCurrentEvent(state, payload) ==
  [state EXCEPT !.currentEvent = payload]

caseCreateEventSuccess(state, payload) ==
  [state EXCEPT !.events = Spread(state.events, payload),
                !.myEvents = Spread(state.myEvents, payload)]

(* state.currentEvent?.id is undefined for an absent currentEvent and then *)
(* equals no id; NoEvent.id = 0 is no event's id either                    *)
caseUpdateEventSuccess(state, payload) ==
  [state EXCEPT
     !.events = ReplaceById(state.events, payload),
     !.myEvents = ReplaceById(state.myEvents, payload),
     !.currentEvent = IF state.currentEvent.id = payload.id
                      THEN payload ELSE state.currentEvent]

(* faulty variant of the DELETE_EVENT_SUCCESS case: the focused event is *)
(* cleared whatever its id                                                *)
caseDeleteEventSuccess_clearsCurrent(state, payload) ==
  [state EXCEPT
     !.events = RemoveById(state.events, payload),
     !.myEvents = RemoveById(state.myEvents, payload),
     !.currentEvent = NoEvent]

caseDeleteEventSuccess(state, payload) ==
  [state EXCEPT
     !.events = RemoveById(state.events, payload),
     !.myEvents = RemoveById(state.myEvents, payload),
     !.currentEvent = IF state.currentEvent.id = payload
                      THEN NoEvent ELSE state.currentEvent]

caseSetFilters(state, payload) == [state EXCEPT !.filters = payload]

caseEventsClearError(state) == [state EXCEPT !.error = NoError]

(* faulty variant of the SET_LOADING case: the error is cleared as well *)
caseEventsSetLoading_clearsError(state, payload) ==
  [state EXCEPT !.isLoading = payload, !.error = NoError]

caseEventsSetLoading(state, payload) == [state EXCEPT !.isLoading = payload]

eventsReducer(state, action) ==
  CASE action.type = "FETCH_EVENTS_START" -> caseFetchEventsStart(state)
    [] action.type = "FETCH_EVENTS_SUCCESS" ->
         caseFetchEventsSuccess(state, action.payload)
    [] action.type = "FETCH_EVENTS_FAILURE" ->
         caseFetchEventsFailure(state, action.payload)
    [] action.type = "FETCH_MY_EVENTS_SUCCESS" ->
         caseFetchMyEventsSuccess(state, action.payload)
    [] action.type = "SET_CURRENT_EVENT" ->
         caseSetCurrentEvent(state, action.payload)
    [] action.type = "CREATE_EVENT_SUCCESS" ->
         caseCreateEventSuccess(state, action.payload)
    [] action.type = "UPDATE_EVENT_SUCCESS" ->
         caseUpdateEventSuccess(state, action.payload)
    [] action.type = "DELETE_EVENT_SUCCESS" ->
         caseDeleteEventSuccess(state, action.payload)
    [] action.type = "SET_FILTERS" -> caseSetFilters(state, action.payload)
    [] action.type = "CLEAR_ERROR" -> caseEventsClearError(state)
    [] action.type = "SET_LOADING" ->
         caseEventsSetLoading(state, action.payload)
    [] OTHER -> state

RECURSIVE eventsDispatch(_, _)
eventsDispatch(state, actions) ==
  IF actions = <<>> THEN state
  ELSE eventsDispatch(eventsReducer(state, Head(actions)), Tail(actions))

----------------------------------------------------------------------------
(* What the last synchronous piece was: which function, whether it was the *)
(* part before the await ("issue") or the continuation ("settle"), how the *)
(* collaborator settled, whether the function's promise rejected, and the  *)
(* values the collaborator handed back.  For a continuation of fetchEvents *)
(* it also says which suspended call was resumed (pos, its place in issue  *)
(* order) and whether the response processed just before belonged to a    *)
(* later-issued fetchEvents call (overtaken); for a sign-in that succeeded *)
(* it says whether the call had been issued before a logout that has been *)
(* applied since (stale).                                                  *)

NoLast ==
  [store |-> "none", op |-> "none", phase |-> "none", collab |-> "none",
   thrown |-> FALSE, msg |-> NoMsg, user |-> NoUser, event |-> NoEvent,
   id |-> 0, pos |-> 0, overtaken |-> FALSE, stale |-> FALSE]

Issued(store, op) ==
  [NoLast EXCEPT !.store = store, !.op = op, !.phase = "issue"]

Settled(store, op, id, collab, thrown, msg) ==
  [NoLast EXCEPT !.store = store, !.op = op, !.phase = "settle", !.id = id,
                 !.collab = collab, !.thrown = thrown, !.msg = msg]

(* the UI invokes one more operation / a suspended call is resumed *)
Invoke == invoked < MaxCalls /\ invoked' = invoked + 1
Resume == UNCHANGED invoked

(* the suspended calls with the i-th one resumed *)
Without(calls, i) ==
  [j \in 1..(Len(calls) - 1) |-> IF j < i THEN calls[j] ELSE calls[j + 1]]

----------------------------------------------------------------------------
(* Session store: orchestration (AuthProvider) *)

(* A suspended call.  The continuations read nothing of it; stale is       *)
(* observation only: the call was issued before a logout whose LOGOUT has  *)
(* been applied, and no sign-in issued after that logout has succeeded yet *)
AuthCall(op) == [op |-> op, stale |-> FALSE]

SignIns == {"login", "register", "checkAuth"}

(* the calls left when the logout at place i has applied LOGOUT: the       *)
(* sign-ins issued before it are stale from now on                         *)
Outdated(calls, i) ==
  [j \in 1..(Len(calls) - 1) |->
     IF j < i
     THEN [calls[j] EXCEPT !.stale = (calls[j].op \in SignIns)]
     ELSE calls[j + 1]]

(* the calls left when the sign-in at place i has succeeded: if it was     *)
(* issued after the logout, that logout is behind the session              *)
Renewed(calls, i) ==
  [j \in 1..(Len(calls) - 1) |->
     LET c == IF j < i THEN calls[j] ELSE calls[j + 1]
     IN IF calls[i].stale THEN c ELSE [c EXCEPT !.stale = FALSE]]

AuthMounted == provider = "AuthProvider"

AuthStep(actions, calls, l) ==
  /\ authState' = authDispatch(authState, actions)
  /\ authCalls' = calls
  /\ last' = l
  /\ UNCHANGED <<provider, evVars, known>>

(* useEffect(() => { checkAuth() }, []): up to the await *)
CheckAuthIssue ==
  /\ AuthMounted
  /\ Invoke
  /\ ~checkAuthRan
  /\ Len(authCalls) < MaxInFlight
  /\ checkAuthRan' = TRUE
  /\ AuthStep(<<[type |-> "SET_LOADING", payload |-> TRUE]>>,
              Append(authCalls, AuthCall("checkAuth")),
              Issued("auth", "checkAuth"))

(* faulty variant of checkAuth's continuation: loading is reset at the end *)
(* of the try block instead of in a finally block                          *)
CheckAuthSettle_resetsInTry ==
  /\ AuthMounted
  /\ Resume
  /\ \E i \in DOMAIN authCalls :
       /\ authCalls[i].op = "checkAuth"
       /\ UNCHANGED checkAuthRan
       /\ \/ \E u \in Users :
               AuthStep(<<[type |-> "LOGIN_SUCCESS", payload |-> u],
                          [type |-> "SET_LOADING", payload |-> FALSE]>>,
                        Renewed(authCalls, i),
                        [Settled("auth", "checkAuth", 0, "ok", FALSE, NoMsg)
                           EXCEPT !.user = u, !.stale = authCalls[i].stale])
          \/ AuthStep(<<[type |-> "SET_LOADING", payload |-> FALSE]>>,
                      Without(authCalls, i),
                      Settled("auth", "checkAuth", 0, "ok", FALSE, NoMsg))
          \/ \E m \in Msgs :
               AuthStep(<<>>, Without(authCalls, i),
                        Settled("auth", "checkAuth", 0, "fail", FALSE, m))

(* checkAuth after the await: try / catch / finally *)
CheckAuthSettle ==
  /\ AuthMounted
  /\ Resume
  /\ \E i \in DOMAIN authCalls :
       /\ authCalls[i].op = "checkAuth"
       /\ UNCHANGED checkAuthRan
       /\ \/ \E u \in Users :
               AuthStep(<<[type |-> "LOGIN_SUCCESS", payload |-> u],
                          [type |-> "SET_LOADING", payload |-> FALSE]>>,
                        Renewed(authCalls, i),
                        [Settled("auth", "checkAuth", 0, "ok", FALSE, NoMsg)
                           EXCEPT !.user = u, !.stale = authCalls[i].stale])
          \/ AuthStep(<<[type |-> "SET_LOADING", payload |-> FALSE]>>,
                      Without(authCalls, i),
                      Settled("auth", "checkAuth", 0, "ok", FALSE, NoMsg))
          \/ \E m \in Msgs :
               AuthStep(<<[type |-> "SET_LOADING", payload |-> FALSE]>>,
                        Without(authCalls, i),
                        Settled("auth", "checkAuth", 0, "fail", FALSE, m))

(* login / register up to the await *)
StartIssue(op, startType) ==
  /\ AuthMounted
  /\ Invoke
  /\ Len(authCalls) < MaxInFlight
  /\ UNCHANGED checkAuthRan
  /\ AuthStep(<<[type |-> startType]>>,
              Append(authCalls, AuthCall(op)),
              Issued("auth", op))

(* login / register after the await: try / catch *)
StartSettle(op, successType, failureType) ==
  /\ AuthMounted
  /\ Resume
  /\ \E i \in DOMAIN authCalls :
       /\ authCalls[i].op = op
       /\ UNCHANGED checkAuthRan
       /\ \/ \E u \in Users :
               AuthStep(<<[type |-> successType, payload |-> u]>>,
                        Renewed(authCalls, i),
                        [Settled("auth", op, 0, "ok", FALSE, NoMsg)
                           EXCEPT !.user = u, !.stale = authCalls[i].stale])
          \/ \E m \in Msgs :
               AuthStep(<<[type |-> failureType, payload |-> m]>>,
                        Without(authCalls, i),
                        Settled("auth", op, 0, "fail", TRUE, m))

LoginIssue == StartIssue("login", "LOGIN_START")
LoginSettle == StartSettle("login", "LOGIN_SUCCESS", "LOGIN_FAILURE")
RegisterIssue == StartIssue("register", "REGISTER_START")
RegisterSettle ==
  StartSettle("register", "REGISTER_SUCCESS", "REGISTER_FAILURE")

(* logout up to the await: nothing is dispatched *)
LogoutIssue ==
  /\ AuthMounted
  /\ Invoke
  /\ Len(authCalls) < MaxInFlight
  /\ UNCHANGED checkAuthRan
  /\ AuthStep(<<>>, Append(authCalls, AuthCall("logout")),
              Issued("auth", "logout"))

(* faulty variant of logout's continuation: the catch block rethrows *)
LogoutSettle_rethrows ==
  /\ AuthMounted
  /\ Resume
  /\ \E i \in DOMAIN authCalls :
       /\ authCalls[i].op = "logout"
       /\ UNCHANGED checkAuthRan
       /\ \/ AuthStep(<<[type |-> "LOGOUT"]>>, Outdated(authCalls, i),
                      Settled("auth", "logout", 0, "ok", FALSE, NoMsg))
          \/ \E m \in Msgs :
               AuthStep(<<>>, Without(authCalls, i),
                        Settled("auth", "logout", 0, "fail", TRUE, m))

(* logout after the await: LOGOUT in the try block, the catch only logs *)
LogoutSettle ==
  /\ AuthMounted
  /\ Resume
  /\ \E i \in DOMAIN authCalls :
       /\ authCalls[i].op = "logout"
       /\ UNCHANGED checkAuthRan
       /\ \/ AuthStep(<<[type |-> "LOGOUT"]>>, Outdated(authCalls, i),
                      Settled("auth", "logout", 0, "ok", FALSE, NoMsg))
          \/ \E m \in Msgs :
               AuthStep(<<>>, Without(authCalls, i),
                        Settled("auth", "logout", 0, "fail", FALSE, m))

(* forgotPassword up to the await *)
ForgotPasswordIssue ==
  /\ AuthMounted
  /\ Invoke
  /\ Len(authCalls) < MaxInFlight
  /\ UNCHANGED checkAuthRan
  /\ AuthStep(<<[type |-> "SET_LOADING", payload |-> TRUE]>>,
              Append(authCalls, AuthCall("forgotPassword")),
              Issued("auth", "forgotPassword"))

(* faulty variant of forgotPassword's continuation: the catch block only *)
(* rethrows                                                               *)
ForgotPasswordSettle_onlyRethrows ==
  /\ AuthMounted
  /\ Resume
  /\ \E i \in DOMAIN authCalls :
       /\ authCalls[i].op = "forgotPassword"
       /\ UNCHANGED checkAuthRan
       /\ \/ AuthStep(<<[type |-> "SET_LOADING", payload |-> FALSE]>>,
                      Without(authCalls, i),
                      Settled("auth", "forgotPassword", 0, "ok", FALSE, NoMsg))
          \/ \E m \in Msgs :
               AuthStep(<<[type |-> "SET_LOADING", payload |-> FALSE]>>,
                        Without(authCalls, i),
                        Settled("auth", "forgotPassword", 0, "fail", TRUE, m))

(* forgotPassword after the await: try / catch / finally *)
ForgotPasswordSettle ==
  /\ AuthMounted
  /\ Resume
  /\ \E i \in DOMAIN authCalls :
       /\ authCalls[i].op = "forgotPassword"
       /\ UNCHANGED checkAuthRan
       /\ \/ AuthStep(<<[type |-> "SET_LOADING", payload |-> FALSE]>>,
                      Without(authCalls, i),
                      Settled("auth", "forgotPassword", 0, "ok", FALSE, NoMsg))
          \/ \E m \in Msgs :
               AuthStep(<<[type |-> "LOGIN_FAILURE", payload |-> m],
                          [type |-> "SET_LOADING", payload |-> FALSE]>>,
                        Without(authCalls, i),
                        Settled("auth", "forgotPassword", 0, "fail", TRUE, m))

(* clearError of the session store: synchronous *)
AuthClearError ==
  /\ AuthMounted
  /\ Invoke
  /\ UNCHANGED checkAuthRan
  /\ AuthStep(<<[type |-> "CLEAR_ERROR"]>>, authCalls,
              [NoLast EXCEPT !.store = "auth", !.op = "clearError",
                             !.phase = "sync"])

AuthNext ==
  \/ CheckAuthIssue
  \/ CheckAuthSettle
  \/ LoginIssue
  \/ LoginSettle
  \/ RegisterIssue
  \/ RegisterSettle
  \/ LogoutIssue
  \/ LogoutSettle
  \/ ForgotPasswordIssue
  \/ ForgotPasswordSettle
  \/ AuthClearError

----------------------------------------------------------------------------
(* The events collaborator (eventsAPI).  It handles a request when the     *)
(* request is issued and settles the promise some time later, so the       *)
(* result a suspended call will see is part of the call.                   *)

srvEvent(id) == [id |-> id, ver |-> srv[id].ver]

RECURSIVE srvList(_, _)
srvList(id, keep) ==
  IF id > NumIds THEN <<>>
  ELSE IF srv[id].ver > 0 /\ id \in keep
       THEN <<srvEvent(id)>> \o srvList(id + 1, keep)
       ELSE srvList(id + 1, keep)

Matches(filters, id) == filters = "{}" \/ id = 1

getEvents(filters) == srvList(1, {id \in EventIds : Matches(filters, id)})

getMyEvents == srvList(1, {id \in EventIds : srv[id].mine})

getEvent(id) == IF srv[id].ver > 0 THEN srvEvent(id) ELSE NoEvent

(* a request that changes event id (update, join, leave) *)
CanChange(id) == srv[id].ver > 0 /\ srv[id].ver < MaxVer
Changed(id) == [srv EXCEPT ![id].ver = @ + 1]

----------------------------------------------------------------------------
(* Event collection store: orchestration (EventsProvider) *)

(* A suspended call: what its continuation will read, i.e. the arguments  *)
(* it still uses (id) and the collaborator's result (ok, event, list).    *)
EvCall(op, id) ==
  [op |-> op, id |-> id, pc |-> "await", ok |-> TRUE,
   event |-> NoEvent, list |-> <<>>]

(* the collaborator will reject the call: the message comes with the      *)
(* rejection, and the catch block reads none of the call's arguments      *)
Failing(call) == [call EXCEPT !.ok = FALSE, !.id = 0]

EventsMounted == provider = "EventsProvider"

(* what the store has been told about the focused event: an update of it  *)
(* processed with payload version v makes v known, a delete of it makes   *)
(* the event known to be gone                                             *)
Gone == MaxVer + 1

Known(l) ==
  IF l.phase = "settle" /\ l.collab = "ok" /\ l.op = "updateEvent"
     /\ evState.currentEvent.id = l.event.id
  THEN [known EXCEPT ![l.event.id] = IF @ < l.event.ver THEN l.event.ver ELSE @]
  ELSE IF l.phase = "settle" /\ l.collab = "ok" /\ l.op = "deleteEvent"
          /\ evState.currentEvent.id = l.id
       THEN [known EXCEPT ![l.id] = Gone]
       ELSE known

EvStep(actions, calls, l) ==
  /\ evState' = eventsDispatch(evState, actions)
  /\ evCalls' = calls
  /\ last' = l
  /\ known' = Known(l)
  /\ UNCHANGED <<provider, authVars>>

(* the result of the settled call i, as the last piece saw it *)
EvSettled(i, thrown, m) ==
  [Settled("events", evCalls[i].op, evCalls[i].id,
           IF evCalls[i].ok THEN "ok" ELSE "fail", thrown, m)
     EXCEPT !.event = evCalls[i].event,
            !.pos = IF evCalls[i].op = "fetchEvents" THEN i ELSE 0,
            !.overtaken = /\ evCalls[i].op = "fetchEvents"
                          /\ last.op = "fetchEvents"
                          /\ last.phase = "settle"
                          /\ last.collab = "ok"
                          /\ i < last.pos]

SetLoading(v) == [type |-> "SET_LOADING", payload |-> v]
Failure(m) == [type |-> "FETCH_EVENTS_FAILURE", payload |-> m]

(* fetchEvents up to the await *)
FetchEventsIssue ==
  /\ EventsMounted
  /\ Invoke
  /\ Len(evCalls) < MaxInFlight
  /\ UNCHANGED <<srv, srvNextId>>
  /\ \E f \in FilterSets :
       \/ EvStep(<<[type |-> "FETCH_EVENTS_START"]>>,
                 Append(evCalls, [EvCall("fetchEvents", 0)
                                    EXCEPT !.list = getEvents(f)]),
                 Issued("events", "fetchEvents"))
       \/ EvStep(<<[type |-> "FETCH_EVENTS_START"]>>,
                 Append(evCalls, Failing(EvCall("fetchEvents", 0))),
                 Issued("events", "fetchEvents"))

(* faulty variant of fetchEvents' continuation: a response is dropped     *)
(* while another fetchEvents call is still suspended                      *)
FetchEventsSettle_dropsOverlapped ==
  /\ EventsMounted
  /\ Resume
  /\ UNCHANGED <<srv, srvNextId>>
  /\ \E i \in DOMAIN evCalls :
       /\ evCalls[i].op = "fetchEvents"
       /\ \/ /\ evCalls[i].ok
             /\ EvStep(IF \E j \in DOMAIN evCalls \ {i} :
                            evCalls[j].op = "fetchEvents"
                       THEN <<>>
                       ELSE <<[type |-> "FETCH_EVENTS_SUCCESS",
                               payload |-> evCalls[i].list]>>,
                       Without(evCalls, i), EvSettled(i, FALSE, NoMsg))
          \/ /\ ~evCalls[i].ok
             /\ \E m \in Msgs :
                  EvStep(<<Failure(m)>>, Without(evCalls, i),
                         EvSettled(i, FALSE, m))

(* fetchEvents after the await: try / catch *)
FetchEventsSettle ==
  /\ EventsMounted
  /\ Resume
  /\ UNCHANGED <<srv, srvNextId>>
  /\ \E i \in DOMAIN evCalls :
       /\ evCalls[i].op = "fetchEvents"
       /\ \/ /\ evCalls[i].ok
             /\ EvStep(<<[type |-> "FETCH_EVENTS_SUCCESS",
                          payload |-> evCalls[i].list]>>,
                       Without(evCalls, i), EvSettled(i, FALSE, NoMsg))
          \/ /\ ~evCalls[i].ok
             /\ \E m \in Msgs :
                  EvStep(<<Failure(m)>>, Without(evCalls, i),
                         EvSettled(i, FALSE, m))

(* fetchMyEvents up to the await: nothing is dispatched *)
FetchMyEventsIssue ==
  /\ EventsMounted
  /\ Invoke
  /\ Len(evCalls) < MaxInFlight
  /\ UNCHANGED <<srv, srvNextId>>
  /\ \/ EvStep(<<>>,
               Append(evCalls, [EvCall("fetchMyEvents", 0)
                                  EXCEPT !.list = getMyEvents]),
               Issued("events", "fetchMyEvents"))
     \/ EvStep(<<>>, Append(evCalls, Failing(EvCall("fetchMyEvents", 0))),
               Issued("events", "fetchMyEvents"))

(* faulty variant of fetchMyEvents' continuation: the catch block reports *)
(* the failure the way fetchEvents does                                  *)
FetchMyEventsSettle_setsError ==
  /\ EventsMounted
  /\ Resume
  /\ UNCHANGED <<srv, srvNextId>>
  /\ \E i \in DOMAIN evCalls :
       /\ evCalls[i].op = "fetchMyEvents"
       /\ \/ /\ evCalls[i].ok
             /\ EvStep(<<[type |-> "FETCH_MY_EVENTS_SUCCESS",
                          payload |-> evCalls[i].list]>>,
                       Without(evCalls, i), EvSettled(i, FALSE, NoMsg))
          \/ /\ ~evCalls[i].ok
             /\ \E m \in Msgs :
                  EvStep(<<Failure(m)>>, Without(evCalls, i),
                         EvSettled(i, FALSE, m))

(* fetchMyEvents after the await: the catch only logs *)
FetchMyEventsSettle ==
  /\ EventsMounted
  /\ Resume
  /\ UNCHANGED <<srv, srvNextId>>
  /\ \E i \in DOMAIN evCalls :
       /\ evCalls[i].op = "fetchMyEvents"
       /\ \/ /\ evCalls[i].ok
             /\ EvStep(<<[type |-> "FETCH_MY_EVENTS_SUCCESS",
                          payload |-> evCalls[i].list]>>,
                       Without(evCalls, i), EvSettled(i, FALSE, NoMsg))
          \/ /\ ~evCalls[i].ok
             /\ \E m \in Msgs :
                  EvStep(<<>>, Without(evCalls, i), EvSettled(i, FALSE, m))

(* fetchEvent up to the await *)
FetchEventIssue ==
  /\ EventsMounted
  /\ Invoke
  /\ Len(evCalls) < MaxInFlight
  /\ UNCHANGED <<srv, srvNextId>>
  /\ \E id \in EventIds :
       \/ EvStep(<<SetLoading(TRUE)>>,
                 Append(evCalls, [EvCall("fetchEvent", 0)
                                    EXCEPT !.event = getEvent(id)]),
                 Issued("events", "fetchEvent"))
       \/ EvStep(<<SetLoading(TRUE)>>,
                 Append(evCalls, Failing(EvCall("fetchEvent", id))),
                 Issued("events", "fetchEvent"))

(* fetchEvent after the await: try / catch / finally *)
FetchEventSettle ==
  /\ EventsMounted
  /\ Resume
  /\ UNCHANGED <<srv, srvNextId>>
  /\ \E i \in DOMAIN evCalls :
       /\ evCalls[i].op = "fetchEvent"
       /\ \/ /\ evCalls[i].ok
             /\ EvStep(<<[type |-> "SET_CURRENT_EVENT",
                          payload |-> evCalls[i].event], SetLoading(FALSE)>>,
                       Without(evCalls, i), EvSettled(i, FALSE, NoMsg))
          \/ /\ ~evCalls[i].ok
             /\ \E m \in Msgs :
                  EvStep(<<Failure(m), SetLoading(FALSE)>>,
                         Without(evCalls, i), EvSettled(i, FALSE, m))

(* createEvent up to the await *)
CreateEventIssue ==
  /\ EventsMounted
  /\ Invoke
  /\ Len(evCalls) < MaxInFlight
  /\ \/ /\ srvNextId <= NumIds
        /\ srv' = [srv EXCEPT ![srvNextId] = [ver |-> 1, mine |-> TRUE]]
        /\ srvNextId' = srvNextId + 1
        /\ EvStep(<<SetLoading(TRUE)>>,
                  Append(evCalls,
                         [EvCall("createEvent", 0)
                            EXCEPT !.event = [id |-> srvNextId, ver |-> 1]]),
                  Issued("events", "createEvent"))
     \/ /\ UNCHANGED <<srv, srvNextId>>
        /\ EvStep(<<SetLoading(TRUE)>>,
                  Append(evCalls, Failing(EvCall("createEvent", 0))),
                  Issued("events", "createEvent"))

(* createEvent after the await: try (return event) / catch (throw) / finally *)
CreateEventSettle ==
  /\ EventsMounted
  /\ Resume
  /\ UNCHANGED <<srv, srvNextId>>
  /\ \E i \in DOMAIN evCalls :
       /\ evCalls[i].op = "createEvent"
       /\ \/ /\ evCalls[i].ok
             /\ EvStep(<<[type |-> "CREATE_EVENT_SUCCESS",
                          payload |-> evCalls[i].event], SetLoading(FALSE)>>,
                       Without(evCalls, i), EvSettled(i, FALSE, NoMsg))
          \/ /\ ~evCalls[i].ok
             /\ \E m \in Msgs :
                  EvStep(<<Failure(m), SetLoading(FALSE)>>,
                         Without(evCalls, i), EvSettled(i, TRUE, m))

(* updateEvent up to the await *)
UpdateEventIssue ==
  /\ EventsMounted
  /\ Invoke
  /\ Len(evCalls) < MaxInFlight
  /\ UNCHANGED srvNextId
  /\ \E id \in EventIds :
       \/ /\ CanChange(id)
          /\ srv' = Changed(id)
          /\ EvStep(<<SetLoading(TRUE)>>,
                    Append(evCalls,
                           [EvCall("updateEvent", 0)
                              EXCEPT !.event = [id |-> id,
                                                ver |-> srv[id].ver + 1]]),
                    Issued("events", "updateEvent"))
       \/ /\ UNCHANGED srv
          /\ EvStep(<<SetLoading(TRUE)>>,
                    Append(evCalls, Failing(EvCall("updateEvent", id))),
                    Issued("events", "updateEvent"))

(* updateEvent after the await: try / catch (throw) / finally *)
UpdateEventSettle ==
  /\ EventsMounted
  /\ Resume
  /\ UNCHANGED <<srv, srvNextId>>
  /\ \E i \in DOMAIN evCalls :
       /\ evCalls[i].op = "updateEvent"
       /\ \/ /\ evCalls[i].ok
             /\ EvStep(<<[type |-> "UPDATE_EVENT_SUCCESS",
                          payload |-> evCalls[i].event], SetLoading(FALSE)>>,
                       Without(evCalls, i), EvSettled(i, FALSE, NoMsg))
          \/ /\ ~evCalls[i].ok
             /\ \E m \in Msgs :
                  EvStep(<<Failure(m), SetLoading(FALSE)>>,
                         Without(evCalls, i), EvSettled(i, TRUE, m))

(* deleteEvent up to the await: nothing is dispatched *)
DeleteEventIssue ==
  /\ EventsMounted
  /\ Invoke
  /\ Len(evCalls) < MaxInFlight
  /\ UNCHANGED srvNextId
  /\ \E id \in EventIds :
       \/ /\ srv[id].ver > 0
          /\ srv' = [srv EXCEPT ![id].ver = 0]
          /\ EvStep(<<>>, Append(evCalls, EvCall("deleteEvent", id)),
                    Issued("events", "deleteEvent"))
       \/ /\ UNCHANGED srv
          /\ EvStep(<<>>, Append(evCalls, Failing(EvCall("deleteEvent", id))),
                    Issued("events", "deleteEvent"))

(* deleteEvent after the await: try / catch (throw) *)
DeleteEventSettle ==
  /\ EventsMounted
  /\ Resume
  /\ UNCHANGED <<srv, srvNextId>>
  /\ \E i \in DOMAIN evCalls :
       /\ evCalls[i].op = "deleteEvent"
       /\ \/ /\ evCalls[i].ok
             /\ EvStep(<<[type |-> "DELETE_EVENT_SUCCESS",
                          payload |-> evCalls[i].id]>>,
                       Without(evCalls, i), EvSettled(i, FALSE, NoMsg))
          \/ /\ ~evCalls[i].ok
             /\ \E m \in Msgs :
                  EvStep(<<Failure(m)>>, Without(evCalls, i),
                         EvSettled(i, TRUE, m))

(* joinEvent / leaveEvent up to the first await: nothing is dispatched *)
AttendIssue(op) ==
  /\ EventsMounted
  /\ Invoke
  /\ Len(evCalls) < MaxInFlight
  /\ UNCHANGED srvNextId
  /\ \E id \in EventIds :
       \/ /\ CanChange(id)
          /\ srv' = Changed(id)
          /\ EvStep(<<>>, Append(evCalls, EvCall(op, id)),
                    Issued("events", op))
       \/ /\ UNCHANGED srv
          /\ EvStep(<<>>, Append(evCalls, Failing(EvCall(op, id))),
                    Issued("events", op))

(* joinEvent / leaveEvent between the awaits: the mutation has settled;   *)
(* on success the event is fetched again, on failure the catch runs       *)
AttendRefetch(op) ==
  /\ EventsMounted
  /\ Resume
  /\ UNCHANGED <<srv, srvNextId>>
  /\ \E i \in DOMAIN evCalls :
       /\ evCalls[i].op = op
       /\ evCalls[i].pc = "await"
       /\ \/ /\ evCalls[i].ok
             /\ EvStep(<<>>,
                       [evCalls EXCEPT ![i].pc = "refetch",
                                       ![i].event = getEvent(evCalls[i].id)],
                       [Issued("events", op)
                          EXCEPT !.phase = "refetch"])
          \/ /\ evCalls[i].ok
             /\ EvStep(<<>>,
                       [evCalls EXCEPT ![i] =
                          Failing([@ EXCEPT !.pc = "refetch"])],
                       [Issued("events", op)
                          EXCEPT !.phase = "refetch"])
          \/ /\ ~evCalls[i].ok
             /\ \E m \in Msgs :
                  EvStep(<<Failure(m)>>, Without(evCalls, i),
                         EvSettled(i, TRUE, m))

(* faulty variant of joinEvent / leaveEvent after the second await: the   *)
(* refreshed value is dispatched without the if (updatedEvent) test       *)
AttendSettle_alwaysSets(op) ==
  /\ EventsMounted
  /\ Resume
  /\ UNCHANGED <<srv, srvNextId>>
  /\ \E i \in DOMAIN evCalls :
       /\ evCalls[i].op = op
       /\ evCalls[i].pc = "refetch"
       /\ \/ /\ evCalls[i].ok
             /\ EvStep(<<[type |-> "SET_CURRENT_EVENT",
                          payload |-> evCalls[i].event]>>,
                       Without(evCalls, i), EvSettled(i, FALSE, NoMsg))
          \/ /\ ~evCalls[i].ok
             /\ \E m \in Msgs :
                  EvStep(<<Failure(m)>>, Without(evCalls, i),
                         EvSettled(i, TRUE, m))

(* joinEvent / leaveEvent after the second await: if (updatedEvent) / catch *)
AttendSettle(op) ==
  /\ EventsMounted
  /\ Resume
  /\ UNCHANGED <<srv, srvNextId>>
  /\ \E i \in DOMAIN evCalls :
       /\ evCalls[i].op = op
       /\ evCalls[i].pc = "refetch"
       /\ \/ /\ evCalls[i].ok
             /\ evCalls[i].event # NoEvent
             /\ EvStep(<<[type |-> "SET_CURRENT_EVENT",
                          payload |-> evCalls[i].event]>>,
                       Without(evCalls, i), EvSettled(i, FALSE, NoMsg))
          \/ /\ evCalls[i].ok
             /\ evCalls[i].event = NoEvent
             /\ EvStep(<<>>, Without(evCalls, i), EvSettled(i, FALSE, NoMsg))
          \/ /\ ~evCalls[i].ok
             /\ \E m \in Msgs :
                  EvStep(<<Failure(m)>>, Without(evCalls, i),
                         EvSettled(i, TRUE, m))

JoinEventIssue == AttendIssue("joinEvent")
JoinEventRefetch == AttendRefetch("joinEvent")
JoinEventSettle == AttendSettle("joinEvent")
LeaveEventIssue == AttendIssue("leaveEvent")
LeaveEventRefetch == AttendRefetch("leaveEvent")
LeaveEventSettle == AttendSettle("leaveEvent")

(* setFilters: synchronous *)
SetFilters ==
  /\ EventsMounted
  /\ Invoke
  /\ UNCHANGED <<srv, srvNextId>>
  /\ \E f \in FilterSets :
       EvStep(<<[type |-> "SET_FILTERS", payload |-> f]>>, evCalls,
              [NoLast EXCEPT !.store = "events", !.op = "setFilters",
                             !.phase = "sync"])

(* clearError of the events store: synchronous *)
EventsClearError ==
  /\ EventsMounted
  /\ Invoke
  /\ UNCHANGED <<srv, srvNextId>>
  /\ EvStep(<<[type |-> "CLEAR_ERROR"]>>, evCalls,
            [NoLast EXCEPT !.store = "events", !.op = "clearError",
                           !.phase = "sync"])

EventsNext ==
  \/ FetchEventsIssue
  \/ FetchEventsSettle
  \/ FetchMyEventsIssue
  \/ FetchMyEventsSettle
  \/ FetchEventIssue
  \/ FetchEventSettle
  \/ CreateEventIssue
  \/ CreateEventSettle
  \/ UpdateEventIssue
  \/ UpdateEventSettle
  \/ DeleteEventIssue
  \/ DeleteEventSettle
  \/ JoinEventIssue
  \/ JoinEventRefetch
  \/ JoinEventSettle
  \/ LeaveEventIssue
  \/ LeaveEventRefetch
  \/ LeaveEventSettle
  \/ SetFilters
  \/ EventsClearError

----------------------------------------------------------------------------
(* The stores as mounted: both providers start from their initialState;    *)
(* the collaborator already holds one event of another user (id 1).        *)

Init ==
  /\ provider \in {"AuthProvider", "EventsProvider"}
  /\ authState = authInitialState
  /\ authCalls = <<>>
  /\ checkAuthRan = FALSE
  /\ evState = eventsInitialState
  /\ evCalls = <<>>
  /\ srvNextId = 2
  /\ srv = [id \in EventIds |->
              [ver |-> IF id < srvNextId THEN 1 ELSE 0, mine |-> FALSE]]
  /\ invoked = 0
  /\ known = [id \in EventIds |-> 0]
  /\ last = NoLast

Next == AuthNext \/ EventsNext

Spec == Init /\ [][Next]_vars

(* Every collaborator call eventually resolves or fails: a suspended call  *)
(* is eventually resumed.                                                  *)
FairSpec ==
  /\ Spec
  /\ WF_vars(CheckAuthSettle)
  /\ WF_vars(LoginSettle)
  /\ WF_vars(RegisterSettle)
  /\ WF_vars(LogoutSettle)
  /\ WF_vars(ForgotPasswordSettle)
  /\ WF_vars(FetchEventsSettle)
  /\ WF_vars(FetchMyEventsSettle)
  /\ WF_vars(FetchEventSettle)
  /\ WF_vars(CreateEventSettle)
  /\ WF_vars(UpdateEventSettle)
  /\ WF_vars(DeleteEventSettle)
  /\ WF_vars(JoinEventRefetch)
  /\ WF_vars(JoinEventSettle)
  /\ WF_vars(LeaveEventRefetch)
  /\ WF_vars(LeaveEventSettle)

----------------------------------------------------------------------------
(* The transition functions on their own: a state and an action are drawn  *)
(* and the reducer is applied once.                                        *)

InputEvents == {[id |-> 1, ver |-> 1], [id |-> 1, ver |-> 2],
                [id |-> 2, ver |-> 1]}

InputLists == UNION {[1..n -> InputEvents] : n \in 0..MaxLen}

AuthStates ==
  [user : Users \cup {NoUser}, isAuthenticated : BOOLEAN,
   isLoading : BOOLEAN, error : Msgs \cup {NoError}]

EventsStates ==
  [events : InputLists, myEvents : InputLists,
   currentEvent : InputEvents \cup {NoEvent}, isLoading : BOOLEAN,
   error : {NoError, "m1"}, filters : FilterSets]

ReducerInit ==
  /\ provider \in {"AuthProvider", "EventsProvider"}
  /\ IF AuthMounted
     THEN authState \in AuthStates /\ evState = eventsInitialState
     ELSE authState = authInitialState /\ evState \in EventsStates
  /\ authCalls = <<>>
  /\ checkAuthRan = FALSE
  /\ evCalls = <<>>
  /\ srvNextId = 2
  /\ srv = [id \in EventIds |->
              [ver |-> IF id < srvNextId THEN 1 ELSE 0, mine |-> FALSE]]
  /\ invoked = 0
  /\ known = [id \in EventIds |-> 0]
  /\ last = NoLast

Dispatched(store, type) ==
  [NoLast EXCEPT !.store = store, !.op = type, !.phase = "dispatch"]

AuthApply(action, l) ==
  /\ AuthMounted
  /\ invoked = 0
  /\ invoked' = 1
  /\ authState' = authReducer(authState, action)
  /\ last' = l
  /\ UNCHANGED <<provider, authCalls, checkAuthRan, evVars, known>>

EventsApply(action, l) ==
  /\ EventsMounted
  /\ invoked = 0
  /\ invoked' = 1
  /\ evState' = eventsReducer(evState, action)
  /\ last' = l
  /\ UNCHANGED <<provider, authVars, evCalls, srv, srvNextId, known>>

AuthReduce ==
  \/ \E t \in {"LOGIN_START", "REGISTER_START", "LOGOUT", "CLEAR_ERROR",
               "UNKNOWN"} :
       AuthApply([type |-> t], Dispatched("auth", t))
  \/ \E t \in {"LOGIN_SUCCESS", "REGISTER_SUCCESS"}, u \in Users :
       AuthApply([type |-> t, payload |-> u],
                 [Dispatched("auth", t) EXCEPT !.user = u])
  \/ \E t \in {"LOGIN_FAILURE", "REGISTER_FAILURE"}, m \in Msgs :
       AuthApply([type |-> t, payload |-> m],
                 [Dispatched("auth", t) EXCEPT !.msg = m])
  \/ \E v \in BOOLEAN :
       AuthApply([type |-> "SET_LOADING", payload |-> v],
                 Dispatched("auth", "SET_LOADING"))

EventsReduce ==
  \/ \E t \in {"FETCH_EVENTS_START", "CLEAR_ERROR", "UNKNOWN"} :
       EventsApply([type |-> t], Dispatched("events", t))
  \/ \E t \in {"FETCH_EVENTS_SUCCESS", "FETCH_MY_EVENTS_SUCCESS"},
        list \in InputLists :
       EventsApply([type |-> t, payload |-> list], Dispatched("events", t))
  \/ \E m \in Msgs :
       EventsApply([type |-> "FETCH_EVENTS_FAILURE", payload |-> m],
                   [Dispatched("events", "FETCH_EVENTS_FAILURE")
                      EXCEPT !.msg = m])
  \/ \E t \in {"CREATE_EVENT_SUCCESS", "UPDATE_EVENT_SUCCESS"},
        e \in InputEvents :
       EventsApply([type |-> t, payload |-> e],
                   [Dispatched("events", t) EXCEPT !.event = e])
  \/ \E e \in InputEvents \cup {NoEvent} :
       EventsApply([type |-> "SET_CURRENT_EVENT", payload |-> e],
                   [Dispatched("events", "SET_CURRENT_EVENT")
                      EXCEPT !.event = e])
  \/ \E id \in {1, 2, 3} :
       EventsApply([type |-> "DELETE_EVENT_SUCCESS", payload |-> id],
                   [Dispatched("events", "DELETE_EVENT_SUCCESS")
                      EXCEPT !.id = id])
  \/ \E f \in FilterSets :
       EventsApply([type |-> "SET_FILTERS", payload |-> f],
                   Dispatched("events", "SET_FILTERS"))
  \/ \E v \in BOOLEAN :
       EventsApply([type |-> "SET_LOADING", payload |-> v],
                   Dispatched("events", "SET_LOADING"))

ReducerNext == AuthReduce \/ EventsReduce

ReducerSpec == ReducerInit /\ [][ReducerNext]_vars

----------------------------------------------------------------------------
(* Claims *)

LastSettled(op) == last.op = op /\ last.phase = "settle"
LastSettled_next(op) == last'.op = op /\ last'.phase = "settle"
LastIssued_next(op) == last'.op = op /\ last'.phase = "issue"

(* C1: logout is best-effort: once logout() has returned, whether the      *)
(* collaborator's logout succeeded or failed, user is absent,              *)
(* isAuthenticated is false and error is absent, and logout() has not      *)
(* rejected.                                                               *)
C1_LogoutClearsSession ==
  LastSettled("logout") =>
    /\ authState.user = NoUser
    /\ ~authState.isAuthenticated
    /\ authState.error = NoError
    /\ ~last.thrown

(* C2: a createEvent whose collaborator call fails with message m ends     *)
(* with error = m and isLoading = false (the reset after the FAILURE does  *)
(* not erase the error), rejects to its caller, and neither of its two     *)
(* synchronous pieces changes events or myEvents.                          *)
C2_CreateEventFailure ==
  [][/\ (LastSettled_next("createEvent") /\ last'.collab = "fail") =>
          /\ evState'.error = last'.msg
          /\ last'.msg \in Msgs
          /\ ~evState'.isLoading
          /\ last'.thrown
          /\ evState'.events = evState.events
          /\ evState'.myEvents = evState.myEvents
     /\ LastIssued_next("createEvent") =>
          /\ evState'.events = evState.events
          /\ evState'.myEvents = evState.myEvents]_vars

C2_Witness ==
  /\ LastSettled("createEvent")
  /\ last.collab = "fail"
  /\ evState.error = "m2"
  /\ evState.events # <<>>

(* C3: login and register dispatch START before the collaborator call      *)
(* (isLoading = true, error absent, user and isAuthenticated untouched);   *)
(* when the collaborator resolves to u the state right after the call is   *)
(* {u, true, false, absent}; when it fails with m the state is             *)
(* {absent, false, false, m} and the failure is propagated.                *)
C3_LoginRegister ==
  [][\A op \in {"login", "register"} :
       /\ LastIssued_next(op) =>
            authState' = [authState EXCEPT !.isLoading = TRUE,
                                           !.error = NoError]
       /\ (LastSettled_next(op) /\ last'.collab = "ok") =>
            /\ last'.user \in Users
            /\ authState' = [user |-> last'.user, isAuthenticated |-> TRUE,
                             isLoading |-> FALSE, error |-> NoError]
            /\ ~last'.thrown
       /\ (LastSettled_next(op) /\ last'.collab = "fail") =>
            /\ last'.msg \in Msgs
            /\ authState' = [user |-> NoUser, isAuthenticated |-> FALSE,
                             isLoading |-> FALSE, error |-> last'.msg]
            /\ last'.thrown]_vars

C3_Witness ==
  /\ LastSettled("register")
  /\ last.collab = "fail"
  /\ authState.error = "m1"
  /\ Len(authCalls) = 1

(* C4: a collaborator failure is re-signaled to the caller exactly for     *)
(* createEvent, updateEvent, deleteEvent, login, register, joinEvent,      *)
(* leaveEvent and forgotPassword; fetchEvents, fetchEvent, fetchMyEvents,  *)
(* logout and the initial session check complete normally.                 *)
Propagating ==
  {"createEvent", "updateEvent", "deleteEvent", "login", "register",
   "joinEvent", "leaveEvent", "forgotPassword"}

Swallowing ==
  {"fetchEvents", "fetchEvent", "fetchMyEvents", "logout", "checkAuth"}

C4_Propagation ==
  (last.phase = "settle" /\ last.collab = "fail") =>
    /\ last.op \in Propagating \cup Swallowing
    /\ last.thrown <=> last.op \in Propagating

C4_Witness ==
  /\ LastSettled("leaveEvent")
  /\ last.collab = "fail"
  /\ last.thrown
  /\ \E i \in DOMAIN evCalls : evCalls[i].op = "fetchMyEvents"

(* C5: in every reachable session state isAuthenticated is true if and     *)
(* only if user is present.                                                *)
C5_AuthenticatedIffUser ==
  authState.isAuthenticated <=> authState.user # NoUser

C5_Witness ==
  /\ authState.isAuthenticated
  /\ authState.user = "u2"
  /\ LastSettled("forgotPassword")
  /\ last.collab = "ok"

(* C6: once an update or delete of the focused event has been processed,   *)
(* currentEvent is never an older version of that event than the one the   *)
(* store was told of, and is not present again with a deleted id (the      *)
(* collaborator does not hand out a deleted id again, so no later call     *)
(* returns it).                                                            *)
C6_CurrentEventLatest ==
  evState.currentEvent # NoEvent =>
    evState.currentEvent.ver >= known[evState.currentEvent.id]

(* C7: fetchEvent, createEvent, updateEvent, forgotPassword and the        *)
(* initial session check reset loading unconditionally: right after any of *)
(* them has completed, on success or on failure, isLoading of its store is *)
(* false; and, every collaborator call eventually resolving or failing, a  *)
(* suspended call of one of them is eventually followed by that reset.     *)
EventsResetOps == {"fetchEvent", "createEvent", "updateEvent"}
AuthResetOps == {"forgotPassword", "checkAuth"}

Suspended(calls, op) == \E i \in DOMAIN calls : calls[i].op = op

C7_LoadingReset ==
  /\ [](\A op \in EventsResetOps : LastSettled(op) => ~evState.isLoading)
  /\ [](\A op \in AuthResetOps : LastSettled(op) => ~authState.isLoading)
  /\ \A op \in EventsResetOps :
       Suspended(evCalls, op) ~> (LastSettled(op) /\ ~evState.isLoading)
  /\ \A op \in AuthResetOps :
       Suspended(authCalls, op) ~> (LastSettled(op) /\ ~authState.isLoading)

C7_Witness ==
  /\ LastSettled("updateEvent")
  /\ last.collab = "fail"
  /\ ~evState.isLoading
  /\ Suspended(evCalls, "fetchEvents")

(* C8: failures of the background refreshes are invisible: a failed        *)
(* initial session check changes nothing but isLoading, which it leaves    *)
(* false; a failed fetchMyEvents leaves the whole events state unchanged;  *)
(* neither propagates the failure.                                         *)
C8_SilentRefreshFailure ==
  [][/\ (LastSettled_next("checkAuth") /\ last'.collab = "fail") =>
          /\ authState' = [authState EXCEPT !.isLoading = FALSE]
          /\ ~last'.thrown
     /\ (LastSettled_next("fetchMyEvents") /\ last'.collab = "fail") =>
          /\ evState' = evState
          /\ ~last'.thrown]_vars

C8_Witness ==
  /\ LastSettled("fetchMyEvents")
  /\ last.collab = "fail"
  /\ evState.error = NoError
  /\ evState.isLoading

(* C9: both transition functions are total and change only the documented  *)
(* fields: an unrecognized action returns the state unchanged and each     *)
(* recognized action leaves every field outside its documented set         *)
(* unchanged.                                                              *)
OnlyChanged(old, new, fields) ==
  /\ DOMAIN new = DOMAIN old
  /\ \A f \in DOMAIN old \ fields : new[f] = old[f]

AuthFields(type) ==
  CASE type \in {"LOGIN_START", "REGISTER_START"} -> {"isLoading", "error"}
    [] type \in {"LOGIN_SUCCESS", "REGISTER_SUCCESS", "LOGIN_FAILURE",
                 "REGISTER_FAILURE"} ->
         {"user", "isAuthenticated", "isLoading", "error"}
    [] type = "LOGOUT" -> {"user", "isAuthenticated", "error"}
    [] type = "CLEAR_ERROR" -> {"error"}
    [] type = "SET_LOADING" -> {"isLoading"}
    [] OTHER -> {}

EventsFields(type) ==
  CASE type = "FETCH_EVENTS_START" -> {"isLoading", "error"}
    [] type = "FETCH_EVENTS_SUCCESS" -> {"events", "isLoading", "error"}
    [] type = "FETCH_EVENTS_FAILURE" -> {"isLoading", "error"}
    [] type = "FETCH_MY_EVENTS_SUCCESS" -> {"myEvents"}
    [] type = "SET_CURRENT_EVENT" -> {"currentEvent"}
    [] type = "CREATE_EVENT_SUCCESS" -> {"events", "myEvents"}
    [] type \in {"UPDATE_EVENT_SUCCESS", "DELETE_EVENT_SUCCESS"} ->
         {"events", "myEvents", "currentEvent"}
    [] type = "SET_FILTERS" -> {"filters"}
    [] type = "CLEAR_ERROR" -> {"error"}
    [] type = "SET_LOADING" -> {"isLoading"}
    [] OTHER -> {}

C9_ReducersFrame ==
  [][/\ last'.store = "auth" =>
          OnlyChanged(authState, authState', AuthFields(last'.op))
     /\ last'.store = "events" =>
          OnlyChanged(evState, evState', EventsFields(last'.op))]_vars

C9_Witness ==
  /\ last.op = "LOGOUT"
  /\ last.phase = "dispatch"
  /\ authState.isLoading
  /\ authState.user = NoUser

(* C10: CREATE_EVENT_SUCCESS(e) appends e at the end of events and of      *)
(* myEvents: each length grows by exactly 1 and all earlier entries keep   *)
(* their positions, also when an entry with e.id is already in the list.   *)
AppendedTo(old, new, e) ==
  /\ Len(new) = Len(old) + 1
  /\ new[Len(new)] = e
  /\ \A i \in 1..Len(old) : new[i] = old[i]

C10_CreateAppends ==
  [][(last'.op = "CREATE_EVENT_SUCCESS" /\ last'.phase = "dispatch") =>
       /\ AppendedTo(evState.events, evState'.events, last'.event)
       /\ AppendedTo(evState.myEvents, evState'.myEvents, last'.event)]_vars

C10_Witness ==
  /\ last.op = "CREATE_EVENT_SUCCESS"
  /\ last.phase = "dispatch"
  /\ Len(evState.events) = 2
  /\ evState.events[1].id = evState.events[2].id
  /\ Len(evState.myEvents) = 1

(* C11: UPDATE_EVENT_SUCCESS(e) replaces by id: afterwards every entry of  *)
(* events and of myEvents whose id is e.id is e, every other entry is      *)
(* unchanged and at the same index, both lengths are unchanged (a list     *)
(* with no entry of that id is unchanged), currentEvent becomes e if its   *)
(* id is e.id and is otherwise unchanged; so the entries for that id in    *)
(* events and in myEvents are the same event afterwards.                   *)
ReplacedIn(old, new, e) ==
  /\ Len(new) = Len(old)
  /\ \A i \in 1..Len(old) :
       new[i] = IF old[i].id = e.id THEN e ELSE old[i]
  /\ (\A i \in 1..Len(old) : old[i].id # e.id) => new = old

SameCanonical(list1, list2, id) ==
  \A i \in 1..Len(list1), j \in 1..Len(list2) :
    (list1[i].id = id /\ list2[j].id = id) => list1[i] = list2[j]

C11_UpdateReplaces ==
  [][(last'.op = "UPDATE_EVENT_SUCCESS" /\ last'.phase = "dispatch") =>
       /\ ReplacedIn(evState.events, evState'.events, last'.event)
       /\ ReplacedIn(evState.myEvents, evState'.myEvents, last'.event)
       /\ evState'.currentEvent =
            IF evState.currentEvent # NoEvent
               /\ evState.currentEvent.id = last'.event.id
            THEN last'.event ELSE evState.currentEvent
       /\ SameCanonical(evState'.events, evState'.myEvents,
                        last'.event.id)]_vars

C11_Witness ==
  /\ last.op = "UPDATE_EVENT_SUCCESS"
  /\ last.phase = "dispatch"
  /\ last.event = [id |-> 1, ver |-> 2]
  /\ evState.events = <<[id |-> 2, ver |-> 1], [id |-> 1, ver |-> 2]>>
  /\ evState.myEvents = <<[id |-> 1, ver |-> 2], [id |-> 1, ver |-> 2]>>
  /\ evState.currentEvent = [id |-> 2, ver |-> 1]

(* C12: DELETE_EVENT_SUCCESS(id) removes exactly the matching entries:     *)
(* events and myEvents are the old sequences without the entries of that   *)
(* id, the remaining entries in their original relative order, and         *)
(* currentEvent is absent afterwards if and only if it was absent before   *)
(* or its id was id, and is otherwise unchanged.                           *)
Kept(old, id) == {i \in 1..Len(old) : old[i].id # id}

(* the index in old of the k-th entry that is kept *)
KeptAt(old, id, k) ==
  CHOOSE i \in Kept(old, id) :
    Cardinality({j \in Kept(old, id) : j <= i}) = k

RemovedFrom(old, new, id) ==
  /\ Len(new) = Cardinality(Kept(old, id))
  /\ \A k \in 1..Len(new) : new[k] = old[KeptAt(old, id, k)]

C12_DeleteRemoves ==
  [][(last'.op = "DELETE_EVENT_SUCCESS" /\ last'.phase = "dispatch") =>
       /\ RemovedFrom(evState.events, evState'.events, last'.id)
       /\ RemovedFrom(evState.myEvents, evState'.myEvents, last'.id)
       /\ evState'.currentEvent = NoEvent <=>
            \/ evState.currentEvent = NoEvent
            \/ evState.currentEvent.id = last'.id
       /\ evState'.currentEvent # NoEvent =>
            evState'.currentEvent = evState.currentEvent]_vars

C12_Witness ==
  /\ last.op = "DELETE_EVENT_SUCCESS"
  /\ last.phase = "dispatch"
  /\ last.id = 1
  /\ evState.events = <<[id |-> 2, ver |-> 1]>>
  /\ evState.myEvents = <<>>
  /\ evState.currentEvent = [id |-> 2, ver |-> 1]

(* C13: deleteEvent does no loading toggling: neither of its synchronous   *)
(* pieces, on the success path or on the failure path, changes isLoading,  *)
(* also when another loading-tracked operation is in flight and isLoading  *)
(* is true.                                                                *)
C13_DeleteKeepsLoading ==
  [][(LastIssued_next("deleteEvent") \/ LastSettled_next("deleteEvent")) =>
       evState'.isLoading = evState.isLoading]_vars

(* C14: when forgotPassword fails with message m, FAILURE(m) is applied    *)
(* and then loading is reset: the session state right after the call is    *)
(* {absent, false, false, m} whatever user and isAuthenticated were, and   *)
(* the failure is propagated; when it succeeds, neither of its pieces      *)
(* changes user, isAuthenticated or error, and isLoading is false after.   *)
C14_ForgotPassword ==
  [][/\ LastIssued_next("forgotPassword") =>
          authState' = [authState EXCEPT !.isLoading = TRUE]
     /\ (LastSettled_next("forgotPassword") /\ last'.collab = "fail") =>
          /\ last'.msg \in Msgs
          /\ authState' = [user |-> NoUser, isAuthenticated |-> FALSE,
                           isLoading |-> FALSE, error |-> last'.msg]
          /\ last'.thrown
     /\ (LastSettled_next("forgotPassword") /\ last'.collab = "ok") =>
          /\ authState' = [authState EXCEPT !.isLoading = FALSE]
          /\ ~last'.thrown]_vars

C14_Witness ==
  /\ LastSettled("forgotPassword")
  /\ last.collab = "fail"
  /\ last.thrown
  /\ authState.error = "m2"
  /\ authState.user = NoUser
  /\ checkAuthRan
  /\ Suspended(authCalls, "login")

(* C15: joinEvent and leaveEvent: when the mutation succeeds and the       *)
(* re-fetch returns a present event v, currentEvent becomes v and nothing  *)
(* else changes; when the re-fetch returns absent, the state is unchanged; *)
(* when the mutation or the re-fetch fails with message m,                 *)
(* FETCH_EVENTS_FAILURE(m) is applied (error = m, isLoading = false, the   *)
(* rest unchanged) and the failure is propagated.  The pieces before the   *)
(* awaits dispatch nothing.                                                *)
AttendOps == {"joinEvent", "leaveEvent"}

C15_JoinLeave ==
  [][\A op \in AttendOps :
       /\ (last'.op = op /\ last'.phase \in {"issue", "refetch"}) =>
            evState' = evState
       /\ (LastSettled_next(op) /\ last'.collab = "ok"
             /\ last'.event # NoEvent) =>
            /\ evState' = [evState EXCEPT !.currentEvent = last'.event]
            /\ ~last'.thrown
       /\ (LastSettled_next(op) /\ last'.collab = "ok"
             /\ last'.event = NoEvent) =>
            /\ evState' = evState
            /\ ~last'.thrown
       /\ (LastSettled_next(op) /\ last'.collab = "fail") =>
            /\ last'.msg \in Msgs
            /\ evState' = [evState EXCEPT !.error = last'.msg,
                                          !.isLoading = FALSE]
            /\ last'.thrown]_vars

(* joinEvent's re-fetch found the event gone, and the focused event stays *)
C15_Witness ==
  /\ LastSettled("joinEvent")
  /\ last.collab = "ok"
  /\ last.event = NoEvent
  /\ evState.currentEvent = [id |-> 1, ver |-> 1]

(* C16: overlapping fetchEvents calls are applied in response-arrival      *)
(* order: whenever a successful fetchEvents response is processed, events  *)
(* becomes the list returned to that call, whichever call was issued       *)
(* first; so after two overlapping calls events holds the list of the one  *)
(* processed last, and that can be the earlier-issued one.                 *)
C16_LastResolvedWins ==
  [][(LastSettled_next("fetchEvents") /\ last'.collab = "ok") =>
       evState'.events = evCalls[last'.pos].list]_vars

(* Both calls have completed; the response processed last is that of the  *)
(* call issued first, which was answered while event 1 still existed; the *)
(* later-issued call was answered after the delete and processed just     *)
(* before.                                                                *)
C16_Witness ==
  /\ LastSettled("fetchEvents")
  /\ last.collab = "ok"
  /\ last.overtaken
  /\ evCalls = <<>>
  /\ evState.events = <<[id |-> 1, ver |-> 1]>>
  /\ getEvents("{}") = <<>>

(* C17: in both stores, in every reachable state in which no orchestration *)
(* function is in flight (every issued call, the initial session check     *)
(* included, has completed), isLoading is false.                           *)
C17_IdleNotLoading ==
  /\ authCalls = <<>> => ~authState.isLoading
  /\ evCalls = <<>> => ~evState.isLoading

(* an event has been focused and a fetchEvents call has failed since;     *)
(* every call has completed                                               *)
C17_Witness ==
  /\ evCalls = <<>>
  /\ LastSettled("fetchEvents")
  /\ last.collab = "fail"
  /\ last.pos = 1
  /\ evState.currentEvent # NoEvent
  /\ ~evState.isLoading

(* C18: isLoading tracks in-flight work under overlap: in every reachable  *)
(* state in which at least one loading-tracked operation is awaiting its   *)
(* collaborator (events store: fetchEvents, fetchEvent, createEvent,       *)
(* updateEvent; session store: the initial session check, login, register, *)
(* forgotPassword), isLoading is true.                                     *)
EventsTrackedOps == {"fetchEvents", "fetchEvent", "createEvent", "updateEvent"}
AuthTrackedOps == {"checkAuth", "login", "register", "forgotPassword"}

C18_LoadingTracksInFlight ==
  /\ (\E op \in AuthTrackedOps : Suspended(authCalls, op)) =>
       authState.isLoading
  /\ (\E op \in EventsTrackedOps : Suspended(evCalls, op)) =>
       evState.isLoading

(* C19: a processed logout is not undone by earlier requests: once LOGOUT  *)
(* has been applied, the session stays unauthenticated until a login,      *)
(* register or session check issued after that logout succeeds: the        *)
(* response to a sign-in issued before the logout leaves user absent and   *)
(* isAuthenticated false, and a step that makes the session authenticated  *)
(* is the success of a sign-in that is not such an earlier request.        *)
Unauthenticated(state) == state.user = NoUser /\ ~state.isAuthenticated

C19_LogoutNotUndone ==
  [][/\ (last'.store = "auth" /\ last'.phase = "settle" /\ last'.stale) =>
          Unauthenticated(authState')
     /\ (Unauthenticated(authState) /\ ~Unauthenticated(authState')) =>
          /\ last'.phase = "settle"
          /\ last'.op \in SignIns
          /\ last'.collab = "ok"
          /\ ~last'.stale]_vars

(* C20: event ids stay unique: the collaborator returning lists without    *)
(* duplicate ids and createEvent returning an event whose id no earlier    *)
(* event had, in every reachable state no two entries of events share an   *)
(* id and no two entries of myEvents share an id.                          *)
UniqueIds(list) ==
  \A i, j \in 1..Len(list) : list[i].id = list[j].id => i = j

C20_UniqueIds ==
  /\ UniqueIds(evState.events)
  /\ UniqueIds(evState.myEvents)

====
